---- MODULE Spec2Model ----
(***************************************************************************)
(* Model of the HLS proxy of src/api/proxy.js.  The file holds two request  *)
(* handlers: the first one (lines 21-247, with getProxyBaseUrl and          *)
(* rewriteUriInTag) is called handler "A" here, the second one (lines       *)
(* 268-405) handler "B".                                                    *)
(*                                                                          *)
(* JavaScript strings are sequences of one-character strings, so that       *)
(* trim, startsWith, endsWith, includes, lastIndexOf, split, join,          *)
(* encodeURIComponent, decodeURIComponent, String.replace with the          *)
(* URI="..." pattern and new URL(rel, base).href are computed character by  *)
(* character.  An absent query parameter or header is the empty sequence:   *)
(* every test the code applies to them (!url, referer ? .. : .., a || b)    *)
(* treats undefined and '' alike.                                           *)
(***************************************************************************)
EXTENDS Naturals, Sequences, FiniteSets

\* ------------------------------------------------------------------ strings

Upper == <<"A","B","C","D","E","F","G","H","I","J","K","L","M",
           "N","O","P","Q","R","S","T","U","V","W","X","Y","Z">>

Lower == <<"a","b","c","d","e","f","g","h","i","j","k","l","m",
           "n","o","p","q","r","s","t","u","v","w","x","y","z">>

Digits == <<"0","1","2","3","4","5","6","7","8","9">>

HexDigits == <<"0","1","2","3","4","5","6","7","8","9","A","B","C","D","E","F">>

Range(s) == { s[i] : i \in DOMAIN s }

Letters == Range(Upper) \cup Range(Lower)

\* The other ASCII characters of the model's alphabet: <<character, code>>.
Punct ==
  { <<"\t", 9>>, <<"\n", 10>>, <<"\r", 13>>, <<" ", 32>>, <<"!", 33>>,
    <<"\"", 34>>, <<"#", 35>>, <<"%", 37>>, <<"&", 38>>, <<"'", 39>>,
    <<"(", 40>>, <<")", 41>>, <<"*", 42>>, <<"+", 43>>, <<",", 44>>,
    <<"-", 45>>, <<".", 46>>, <<"/", 47>>, <<":", 58>>, <<"=", 61>>,
    <<"?", 63>>, <<"@", 64>>, <<"[", 91>>, <<"]", 93>>, <<"_", 95>>,
    <<"~", 126>> }

IndexIn(c, s) == CHOOSE i \in DOMAIN s : s[i] = c

\* The ASCII code of a character of the alphabet.
CharCode(c) ==
  IF c \in Range(Upper) THEN 64 + IndexIn(c, Upper)
  ELSE IF c \in Range(Lower) THEN 96 + IndexIn(c, Lower)
  ELSE IF c \in Range(Digits) THEN 47 + IndexIn(c, Digits)
  ELSE (CHOOSE p \in Punct : p[1] = c)[2]

\* The character of an ASCII code; a code outside the alphabet gives the
\* substitute marker "SUB" (no input of the model produces one).
CodeChar(n) ==
  IF n \in 65..90 THEN Upper[n - 64]
  ELSE IF n \in 97..122 THEN Lower[n - 96]
  ELSE IF n \in 48..57 THEN Digits[n - 47]
  ELSE IF \E p \in Punct : p[2] = n THEN (CHOOSE p \in Punct : p[2] = n)[1]
  ELSE "SUB"

\* String.prototype.substring(from, to), 0-based, end exclusive.
Substring(s, from, to) == SubSeq(s, from + 1, to)

\* String.prototype.startsWith
StartsWith(s, p) == Len(p) <= Len(s) /\ SubSeq(s, 1, Len(p)) = p

\* String.prototype.endsWith
EndsWith(s, p) ==
  Len(p) <= Len(s) /\ SubSeq(s, Len(s) - Len(p) + 1, Len(s)) = p

\* The least element of a set of positions, none when the set is empty.
MinOr(S, none) == IF S = {} THEN none ELSE CHOOSE i \in S : \A j \in S : i <= j

MaxOr(S, none) == IF S = {} THEN none ELSE CHOOSE i \in S : \A j \in S : j <= i

\* String.prototype.indexOf(p, from) + 1: the 1-based position of the first
\* occurrence of p at or after 1-based position from, 0 when there is none
\* (indexOf gives -1).
IndexOfFrom(s, p, from) ==
  MinOr({ i \in from..(Len(s) - Len(p) + 1) : SubSeq(s, i, i + Len(p) - 1) = p }, 0)

IndexOf(s, p) == IndexOfFrom(s, p, 1)

\* String.prototype.includes
Includes(s, p) == IndexOf(s, p) # 0

\* String.prototype.lastIndexOf(c) + 1: the 1-based position of the last
\* occurrence, 0 when there is none (lastIndexOf gives -1).
LastIndexOfPlus1(s, c) == MaxOr({ i \in DOMAIN s : s[i] = c }, 0)

\* The white space String.prototype.trim removes (within the alphabet).
WhiteSpace == {" ", "\t", "\r", "\n"}

RECURSIVE TrimStart(_)
TrimStart(s) ==
  IF s # <<>> /\ Head(s) \in WhiteSpace THEN TrimStart(Tail(s)) ELSE s

RECURSIVE TrimEnd(_)
TrimEnd(s) ==
  IF s # <<>> /\ s[Len(s)] \in WhiteSpace
  THEN TrimEnd(SubSeq(s, 1, Len(s) - 1)) ELSE s

\* String.prototype.trim
Trim(s) == TrimEnd(TrimStart(s))

\* String.prototype.split(sep) for a one-character separator; k is the
\* position of the first separator.
RECURSIVE SplitAt(_, _, _)
SplitAt(s, sep, k) ==
  IF k = 0 THEN <<s>>
  ELSE <<SubSeq(s, 1, k - 1)>>
       \o SplitAt(SubSeq(s, k + 1, Len(s)), sep,
                  IndexOf(SubSeq(s, k + 1, Len(s)), <<sep>>))

Split(s, sep) == SplitAt(s, sep, IndexOf(s, <<sep>>))

\* Array.prototype.join(sep)
RECURSIVE Join(_, _)
Join(parts, sep) ==
  IF parts = <<>> THEN <<>>
  ELSE IF Len(parts) = 1 THEN parts[1]
  ELSE parts[1] \o <<sep>> \o Join(Tail(parts), sep)

\* ------------------------------------------------- percent encoding

\* The characters encodeURIComponent leaves alone.
UriUnreserved ==
  Letters \cup Range(Digits) \cup {"-", "_", ".", "!", "~", "*", "'", "(", ")"}

PercentByte(n) == <<"%", HexDigits[(n \div 16) + 1], HexDigits[(n % 16) + 1]>>

\* encodeURIComponent
RECURSIVE encodeURIComponent(_)
encodeURIComponent(s) ==
  IF s = <<>> THEN <<>>
  ELSE (IF Head(s) \in UriUnreserved THEN <<Head(s)>>
        ELSE PercentByte(CharCode(Head(s))))
       \o encodeURIComponent(Tail(s))

IsHex(c) == c \in Range(HexDigits) \cup {"a", "b", "c", "d", "e", "f"}

HexValue(c) ==
  IF c \in Range(HexDigits) THEN IndexIn(c, HexDigits) - 1
  ELSE 9 + IndexIn(c, <<"a", "b", "c", "d", "e", "f">>)

\* c followed by the decoded rest, when the rest decodes.
Decoded(c, rest) == [ok |-> rest.ok, value |-> <<c>> \o rest.value]

DecodeFailure == [ok |-> FALSE, value |-> <<>>]

\* decodeURIComponent: [ok, value]; ok is FALSE where it throws URIError (a
\* '%' not followed by two hex digits, or a byte >= 0x80 that starts no
\* complete UTF-8 sequence; multi-byte sequences are outside the alphabet).
RECURSIVE decodeURIComponent(_)
decodeURIComponent(s) ==
  IF s = <<>> THEN [ok |-> TRUE, value |-> <<>>]
  ELSE IF Head(s) # "%" THEN Decoded(Head(s), decodeURIComponent(Tail(s)))
  ELSE IF Len(s) < 3 \/ ~IsHex(s[2]) \/ ~IsHex(s[3]) THEN DecodeFailure
  ELSE IF 16 * HexValue(s[2]) + HexValue(s[3]) >= 128 THEN DecodeFailure
  ELSE Decoded(CodeChar(16 * HexValue(s[2]) + HexValue(s[3])),
               decodeURIComponent(SubSeq(s, 4, Len(s))))

\* ------------------------------------------------------ WHATWG URL

\* The URL class is the platform's (Node); what follows is its parser on the
\* model's alphabet: http and https (special) URLs with a host name, a path,
\* a query and a fragment.  User info, ports, IPv6 literals, upper-case
\* schemes, backslashes and percent-encoded dot segments are outside the
\* alphabet of the inputs.

SpecialSchemes == { <<"h","t","t","p">>, <<"h","t","t","p","s">> }

SchemeChars == Letters \cup Range(Digits) \cup {"+", "-", "."}

\* 1-based position of the ':' ending a scheme at the start of s, 0 when s
\* does not start with a scheme; c is the position of the first ':'.
SchemeEndAt(s, c) ==
  IF c > 1 /\ s[1] \in Letters /\ \A i \in 2..(c - 1) : s[i] \in SchemeChars
  THEN c ELSE 0

SchemeEnd(s) == SchemeEndAt(s, IndexOf(s, <<":">>))

HasScheme(s) == SchemeEnd(s) # 0

\* Leading and trailing C0 control or space are stripped, and every tab and
\* newline is removed, before a URL is parsed.
RemoveTabNewline(s) == SelectSeq(s, LAMBDA c : c \notin {"\t", "\n", "\r"})

UrlInput(s) == RemoveTabNewline(Trim(s))

\* 1-based position of the first character of s that is in set, from
\* position from on; Len(s) + 1 when there is none.
FirstOf(s, set, from) == MinOr({ i \in from..Len(s) : s[i] \in set }, Len(s) + 1)

RECURSIVE SkipSlashes(_)
SkipSlashes(s) == IF s # <<>> /\ Head(s) = "/" THEN SkipSlashes(Tail(s)) ELSE s

\* The percent-encode sets of the path, the (special) query and the fragment.
RECURSIVE EncodeSet(_, _)
EncodeSet(s, set) ==
  IF s = <<>> THEN <<>>
  ELSE (IF Head(s) \in set THEN PercentByte(CharCode(Head(s))) ELSE <<Head(s)>>)
       \o EncodeSet(Tail(s), set)

PathEncodeSet == {" ", "\"", "#", "?"}

QueryEncodeSet == {" ", "\"", "#", "'"}

FragmentEncodeSet == {" ", "\""}

\* The segments without the last one.
DirSegments(segs) == IF segs = <<>> THEN <<>> ELSE SubSeq(segs, 1, Len(segs) - 1)

\* The path state: '.' and '..' segments are resolved as the segments are
\* appended to the segments so far.
RECURSIVE AppendSegments(_, _)
AppendSegments(acc, segs) ==
  IF segs = <<>> THEN acc
  ELSE IF Head(segs) = <<".", ".">>
  THEN AppendSegments(IF Len(segs) = 1 THEN Append(DirSegments(acc), <<>>)
                      ELSE DirSegments(acc), Tail(segs))
  ELSE IF Head(segs) = <<".">>
  THEN AppendSegments(IF Len(segs) = 1 THEN Append(acc, <<>>) ELSE acc, Tail(segs))
  ELSE AppendSegments(Append(acc, EncodeSet(Head(segs), PathEncodeSet)), Tail(segs))

\* The three parts of what follows the authority (or of a relative
\* reference): path text, query text with its '?', fragment text with '#';
\* h and q are the positions of the first '#' and the first '?'.
SplitRefAt(s, h, q) ==
  [path |-> SubSeq(s, 1, (IF q < h THEN q ELSE h) - 1),
   query |-> IF q < h THEN <<"?">> \o EncodeSet(SubSeq(s, q + 1, h - 1), QueryEncodeSet)
             ELSE <<>>,
   frag |-> IF h <= Len(s)
            THEN <<"#">> \o EncodeSet(SubSeq(s, h + 1, Len(s)), FragmentEncodeSet)
            ELSE <<>>]

SplitRef(s) == SplitRefAt(s, FirstOf(s, {"#"}, 1), FirstOf(s, {"?"}, 1))

\* The segments of a path text that starts with '/' ('' gives none).
PathSegments(p) == IF p = <<>> THEN <<>> ELSE Split(Tail(p), "/")

ForbiddenHostChars == {" ", "#", "%", "/", ":", "?", "@", "[", "]"}

UrlFailure ==
  [ok |-> FALSE, scheme |-> <<>>, host |-> <<>>, segs |-> <<>>,
   query |-> <<>>, frag |-> <<>>]

\* The URL of a scheme, a host and the parts that follow it; the host of a
\* special URL must not be empty.
MakeUrl(scheme, host, ref) ==
  IF host = <<>> \/ \E i \in DOMAIN host : host[i] \in ForbiddenHostChars
  THEN UrlFailure
  ELSE [ok |-> TRUE, scheme |-> scheme, host |-> host,
        segs |-> AppendSegments(<<>>, PathSegments(ref.path)),
        query |-> ref.query, frag |-> ref.frag]

\* The host runs to position he, the next '/', '?' or '#'.
HostAndRest(scheme, rest, he) ==
  MakeUrl(scheme, SubSeq(rest, 1, he - 1), SplitRef(SubSeq(rest, he, Len(rest))))

AuthorityOf(scheme, rest) == HostAndRest(scheme, rest, FirstOf(rest, {"/", "?", "#"}, 1))

\* The authority and what follows it, for a special scheme: any number of
\* slashes is skipped before the host.
ParseAuthority(scheme, afterScheme) == AuthorityOf(scheme, SkipSlashes(afterScheme))

\* The basic URL parser on a cleaned input whose scheme ends at c.
ParseInput(in, c) ==
  IF c = 0 \/ SubSeq(in, 1, c - 1) \notin SpecialSchemes THEN UrlFailure
  ELSE ParseAuthority(SubSeq(in, 1, c - 1), SubSeq(in, c + 1, Len(in)))

ParseClean(in) == ParseInput(in, SchemeEnd(in))

\* new URL(s): the parsed URL, ok FALSE where the constructor throws.
ParseUrl(s) == ParseClean(UrlInput(s))

\* URL.prototype.href
Href(u) ==
  u.scheme \o <<":", "/", "/">> \o u.host \o <<"/">> \o Join(u.segs, "/")
  \o u.query \o u.frag

\* URL.prototype.origin
Origin(u) == u.scheme \o <<":", "/", "/">> \o u.host

WithRef(b, segs, ref) == [b EXCEPT !.segs = segs, !.query = ref.query, !.frag = ref.frag]

\* The relative state: reference in, with parts ref, against the base b.
Relative(in, ref, b) ==
  IF in = <<>> THEN [b EXCEPT !.frag = <<>>]
  ELSE IF StartsWith(in, <<"/", "/">>) THEN ParseAuthority(b.scheme, in)
  ELSE IF Head(in) = "/"
  THEN WithRef(b, AppendSegments(<<>>, PathSegments(ref.path)), ref)
  ELSE IF Head(in) = "?" THEN [b EXCEPT !.query = ref.query, !.frag = ref.frag]
  ELSE IF Head(in) = "#" THEN [b EXCEPT !.frag = ref.frag]
  ELSE WithRef(b, AppendSegments(DirSegments(b.segs), Split(ref.path, "/")), ref)

RelativeTo(in, b) == Relative(in, SplitRef(in), b)

\* A cleaned reference whose scheme, if it has one, ends at c, against the
\* parsed base b.  'https:x' against an https base is a relative reference.
ResolveRef(in, c, b) ==
  IF ~b.ok THEN UrlFailure
  ELSE IF c = 0 THEN RelativeTo(in, b)
  ELSE IF SubSeq(in, 1, c - 1) # b.scheme THEN ParseClean(in)
  ELSE IF StartsWith(SubSeq(in, c + 1, Len(in)), <<"/">>) THEN ParseClean(in)
  ELSE RelativeTo(SubSeq(in, c + 1, Len(in)), b)

ResolveClean(in, b) == ResolveRef(in, SchemeEnd(in), b)

\* new URL(rel, base): ok FALSE where the constructor throws (the base does
\* not parse, or the reference has an authority that does not).
ResolveUrl(rel, base) == ResolveClean(UrlInput(rel), ParseUrl(base))

\* ------------------------------------------------- program constants

\* src/api/proxy.js:75, 316, 382
DefaultReferer == <<"h","t","t","p","s",":","/","/","m","e","g","a","c","l","o","u","d",".","t","v">>

\* src/api/proxy.js:15, 367
DefaultProtocol == <<"h","t","t","p","s">>

\* src/api/proxy.js:201, 262, 383
ApiProxyUrl == <<"/","a","p","i","/","p","r","o","x","y","?","u","r","l","=">>

RefererParam == <<"&","r","e","f","e","r","e","r","=">>

\* src/api/proxy.js:124 and 337: the content type when upstream sends none
DefaultContentTypeA == <<"a","p","p","l","i","c","a","t","i","o","n","/","o","c","t","e","t","-","s","t","r","e","a","m">>

DefaultContentTypeB == <<"a","p","p","l","i","c","a","t","i","o","n","/","v","n","d",".","a","p","p","l","e",".","m","p","e","g","u","r","l">>

\* src/api/proxy.js:141, 351
Bytes == <<"b","y","t","e","s">>

\* User-Agent of src/api/proxy.js:80 and 298
BrowserUserAgent ==
  <<"M","o","z","i","l","l","a","/","5",".","0"," ","(","W","i","n","d","o","w","s"," ","N","T"," ","1","0",".","0",";"," ","W","i","n","6","4",";"," ","x","6","4",")"," ","A","p","p","l","e","W","e","b","K","i","t","/","5","3","7",".","3","6"," ","(","K","H","T","M","L",","," ","l","i","k","e"," ","G","e","c","k","o",")"," ","C","h","r","o","m","e","/","1","2","0",".","0",".","0",".","0"," ","S","a","f","a","r","i","/","5","3","7",".","3","6">>

\* Header values of src/api/proxy.js:26-28, 120-121 (handler A) and 272-274
\* (handler B)
AllowMethods == "GET, OPTIONS"

AllowHeadersA == "Range, Content-Type, Accept, Accept-Encoding, Origin, Referer"

ExposeHeadersPreflightA == "Content-Length, Content-Range, Accept-Ranges, Cache-Control, Content-Type"

ExposeHeadersA == "Content-Length, Content-Range, Accept-Ranges, Cache-Control, Content-Type, ETag"

AllowHeadersB == "Range, Content-Type, Accept, Accept-Encoding"

ExposeHeadersB == "Content-Length, Content-Range, Accept-Ranges, Cache-Control"

\* Cache-Control values of src/api/proxy.js:157, 160, 165, 355, 357
CacheImmutable == "public, max-age=31536000, immutable"

CacheNoStore == "no-cache, no-store, must-revalidate"

CacheModerate == "public, max-age=3600"

CacheNoCache == "no-cache"

\* ------------------------------------------------- response object

\* res.setHeader(name, value)
setHeader(h, name, value) ==
  [n \in DOMAIN h \cup {name} |-> IF n = name THEN value ELSE h[n]]

NoHeaders == [n \in {} |-> ""]

NoBody == [kind |-> "none", error |-> "", fields |-> {}, status |-> 0,
           url |-> <<>>, data |-> <<>>]

\* The response before the handler has touched it.
FreshResponse == [by |-> "none", status |-> 0, headers |-> NoHeaders, body |-> NoBody]

\* res.status(code).end()
End(r, code) ==
  [r EXCEPT !.by = "handler", !.status = code, !.body = [NoBody EXCEPT !.kind = "empty"]]

\* res.status(code).json({error, ...}): fields names the members of the
\* object, status and url their values where the object has them.
Json(r, code, error, fields, status, url) ==
  [r EXCEPT !.by = "handler", !.status = code,
            !.body = [kind |-> "json", error |-> error, fields |-> fields,
                      status |-> status, url |-> url, data |-> <<>>]]

\* res.status(code).send(string)
SendText(r, code, text) ==
  [r EXCEPT !.by = "handler", !.status = code,
            !.body = [NoBody EXCEPT !.kind = "text", !.data = text]]

\* res.status(code).send(Buffer)
SendBuffer(r, code, data) ==
  [r EXCEPT !.by = "handler", !.status = code,
            !.body = [NoBody EXCEPT !.kind = "bytes", !.data = data]]

\* An exception that leaves the handler: the async function rejects and the
\* platform, not the handler, answers (500, none of the handler's headers
\* that matter here are relied on).
Uncaught(r) == [r EXCEPT !.by = "platform", !.status = 500]

\* req.headers[name] || fallback
OrElse(v, fallback) == IF v # <<>> THEN v ELSE fallback

\* ------------------------------------------------- handler A (lines 1-264)

\* getProxyBaseUrl without the configured address.
getProxyBaseUrl_NoOverride(e, hdrs) ==
  OrElse(hdrs.xfproto, DefaultProtocol) \o <<":", "/", "/">>
  \o OrElse(hdrs.xfhost, hdrs.host)

\* getProxyBaseUrl(req); e is process.env.PROXY_BASE_URL
getProxyBaseUrl(e, hdrs) ==
  IF e # <<>>
  THEN (IF e[Len(e)] = "/" THEN SubSeq(e, 1, Len(e) - 1) ELSE e)
  ELSE OrElse(hdrs.xfproto, DefaultProtocol) \o <<":", "/", "/">>
       \o OrElse(hdrs.xfhost, hdrs.host)

ProxyLink(proxyBaseUrl, targetUrl, encodedReferer) ==
  proxyBaseUrl \o ApiProxyUrl \o encodeURIComponent(targetUrl)
  \o RefererParam \o encodedReferer

UriAttr == <<"U","R","I","=","\"">>

\* Where /URI="([^"]+)"/ can match in tag: 'URI="', then a character that
\* is no quote, then a quote somewhere after it.
UriStarts(tag) ==
  { i \in 1..(Len(tag) - 4) :
      /\ SubSeq(tag, i, i + 4) = UriAttr
      /\ i + 5 <= Len(tag)
      /\ tag[i + 5] # "\""
      /\ FirstOf(tag, {"\""}, i + 5) <= Len(tag) }

UriMatchAt(tag, at) ==
  [at |-> at, close |-> IF at = 0 THEN 0 ELSE FirstOf(tag, {"\""}, at + 5)]

\* The leftmost match of /URI="([^"]+)"/ in tag: [at, close], the 1-based
\* positions of the 'U' and of the closing quote; at = 0 when nothing matches.
UriMatch(tag) == UriMatchAt(tag, MinOr(UriStarts(tag), 0))

HttpPrefix == <<"h","t","t","p">>

\* The tag with the match m replaced by URI="<link>".
Splice(tag, m, link) ==
  SubSeq(tag, 1, m.at - 1) \o UriAttr \o link \o SubSeq(tag, m.close, Len(tag))

\* Lines 255-259: the value resolved to u, or the match returned as it is
\* where new URL threw.
ReplaceResolved(tag, m, u, proxyBaseUrl, encodedReferer) ==
  IF ~u.ok THEN tag
  ELSE Splice(tag, m, ProxyLink(proxyBaseUrl, Href(u), encodedReferer))

\* The replacer function of lines 252-263 on the match m with group uri.
ReplaceUri(tag, m, uri, basePath, proxyBaseUrl, encodedReferer) ==
  IF StartsWith(uri, HttpPrefix)
  THEN Splice(tag, m, ProxyLink(proxyBaseUrl, uri, encodedReferer))
  ELSE ReplaceResolved(tag, m, ResolveUrl(uri, basePath), proxyBaseUrl, encodedReferer)

ReplaceMatch(tag, m, basePath, proxyBaseUrl, encodedReferer) ==
  IF m.at = 0 THEN tag
  ELSE ReplaceUri(tag, m, SubSeq(tag, m.at + 5, m.close - 1), basePath,
                  proxyBaseUrl, encodedReferer)

\* rewriteUriInTag(tag, basePath, proxyBaseUrl, encodedReferer)
rewriteUriInTag(tag, basePath, proxyBaseUrl, encodedReferer) ==
  ReplaceMatch(tag, UriMatch(tag), basePath, proxyBaseUrl, encodedReferer)

LineOk(out) == [ok |-> TRUE, out |-> out]

LineThrows == [ok |-> FALSE, out |-> <<>>]

\* Lines 196-201: the reference resolved to u; new URL threw where ~u.ok.
ProxyResolved(u, proxyBaseUrl, encodedReferer) ==
  IF ~u.ok THEN LineThrows
  ELSE LineOk(ProxyLink(proxyBaseUrl, Href(u), encodedReferer))

\* Lines 185-201 on a line and its trimmed text.
RewriteTrimmedA(line, trimmedLine, basePath, proxyBaseUrl, encodedReferer) ==
  IF trimmedLine = <<>> \/ StartsWith(trimmedLine, <<"#">>)
  THEN LineOk(IF Includes(trimmedLine, UriAttr)
              THEN rewriteUriInTag(trimmedLine, basePath, proxyBaseUrl, encodedReferer)
              ELSE line)
  ELSE IF StartsWith(trimmedLine, HttpPrefix)
  THEN LineOk(ProxyLink(proxyBaseUrl, trimmedLine, encodedReferer))
  ELSE ProxyResolved(ResolveUrl(trimmedLine, basePath), proxyBaseUrl, encodedReferer)

\* The callback of lines.map in handler A (lines 181-202): [ok, out], ok
\* FALSE where new URL throws.
RewriteLineA(line, basePath, proxyBaseUrl, encodedReferer) ==
  RewriteTrimmedA(line, Trim(line), basePath, proxyBaseUrl, encodedReferer)

\* decodedUrl.substring(0, decodedUrl.lastIndexOf('/') + 1)
BasePath(decodedUrl) == Substring(decodedUrl, 0, LastIndexOfPlus1(decodedUrl, "/"))

\* response.headers[name], '' when upstream did not send it
Hdr(reply, name) ==
  IF name \in DOMAIN reply.headers THEN reply.headers[name] ELSE <<>>

\* if (response.headers[from]) res.setHeader(to, response.headers[from])
Forward(h, reply, from, to) ==
  IF Hdr(reply, from) # <<>> THEN setHeader(h, to, Hdr(reply, from)) ELSE h

NoOutbound ==
  [url |-> <<>>, referer |-> <<>>, origin |-> <<>>, range |-> <<>>,
   userAgent |-> <<>>]

\* What a step of a handler leaves behind: the response so far, whether it
\* has been sent (done), and the axios request it issued, if any.
Answered(r) == [done |-> TRUE, res |-> r, fetch |-> FALSE, outbound |-> NoOutbound]

Awaiting(r, o) == [done |-> FALSE, res |-> r, fetch |-> TRUE, outbound |-> o]

AllowOrigin(r) ==
  [r EXCEPT !.headers = setHeader(@, "Access-Control-Allow-Origin", "*")]

\* Lines 24-28: the headers of the preflight answer of handler A.
PreflightHeadersA(h) ==
  setHeader(setHeader(setHeader(setHeader(setHeader(h,
    "Access-Control-Allow-Origin", "*"),
    "Access-Control-Allow-Methods", AllowMethods),
    "Access-Control-Allow-Headers", AllowHeadersA),
    "Access-Control-Expose-Headers", ExposeHeadersPreflightA),
    "Access-Control-Max-Age", "86400")

\* Lines 74-104 of handler A: dec is the decoded url (valid), decRef the
\* result of decodeURIComponent(referer) where referer is given.
FetchA(rq, dec, decRef) ==
  IF rq.referer # <<>> /\ ~decRef.ok
  THEN Answered(Uncaught(FreshResponse))     \* line 75 is outside every try
  ELSE Awaiting(FreshResponse,
                [url |-> dec.value,
                 referer |-> IF rq.referer # <<>> THEN decRef.value ELSE DefaultReferer,
                 origin |-> IF rq.referer # <<>> THEN decRef.value ELSE DefaultReferer,
                 range |-> rq.headers.range,
                 userAgent |-> OrElse(rq.headers.ua, BrowserUserAgent)])

\* Lines 52-104 of handler A: dec is the result of decodeURIComponent(url).
ValidateA(rq, dec) ==
  IF ~dec.ok
  THEN Answered(Json(AllowOrigin(FreshResponse), 400, "Invalid URL encoding",
                     {"error", "message"}, 0, <<>>))
  ELSE IF ~ParseUrl(dec.value).ok
  THEN Answered(Json(AllowOrigin(FreshResponse), 400, "Invalid URL format",
                     {"error", "url"}, 0, dec.value))
  ELSE FetchA(rq, dec, decodeURIComponent(rq.referer))

\* Lines 23-104 of handler A, up to the await of axios.
StartA(rq) ==
  IF rq.method = "OPTIONS"
  THEN Answered(End([FreshResponse EXCEPT !.headers = PreflightHeadersA(@)], 204))
  ELSE IF rq.method # "GET"
  THEN Answered(Json(AllowOrigin(FreshResponse), 405, "Method not allowed",
                     {"error", "allowedMethods"}, 0, <<>>))
  ELSE IF rq.url = <<>>
  THEN Answered(Json(AllowOrigin(FreshResponse), 400, "URL parameter is required",
                     {"error", "usage"}, 0, <<>>))
  ELSE ValidateA(rq, decodeURIComponent(rq.url))

\* The catch block of handler A (lines 211-246); err is [code, hasResponse,
\* status], r the response as the try block left it.
CatchA(r, err, decodedUrl) ==
  IF err.code = "ECONNABORTED"
  THEN Json(AllowOrigin(r), 504, "Gateway timeout", {"error", "message", "url"},
            0, decodedUrl)
  ELSE IF err.code \in {"ENOTFOUND", "EAI_AGAIN"}
  THEN Json(AllowOrigin(r), 502, "DNS lookup failed", {"error", "message", "url"},
            0, decodedUrl)
  ELSE IF err.hasResponse
  THEN Json(AllowOrigin(r), IF err.status # 0 THEN err.status ELSE 502,
            "Upstream error", {"error", "status", "message", "url"}, err.status,
            decodedUrl)
  ELSE Json(AllowOrigin(r), 500, "Internal proxy error", {"error", "message", "url"},
            0, decodedUrl)

\* The TypeError new URL throws inside lines.map.
InvalidUrlError == [code |-> "ERR_INVALID_URL", hasResponse |-> FALSE, status |-> 0]

\* Lines 154-166 of handler A.
CacheHeadersA(h, decodedUrl) ==
  IF EndsWith(decodedUrl, <<".","t","s">>) \/ EndsWith(decodedUrl, <<".","m","4","s">>)
     \/ EndsWith(decodedUrl, <<".","m","p","4">>)
  THEN setHeader(h, "Cache-Control", CacheImmutable)
  ELSE IF EndsWith(decodedUrl, <<".","m","3","u","8">>) \/ EndsWith(decodedUrl, <<".","m","p","d">>)
  THEN setHeader(setHeader(setHeader(h, "Cache-Control", CacheNoStore),
                           "Pragma", "no-cache"), "Expires", "0")
  ELSE setHeader(h, "Cache-Control", CacheModerate)

\* Lines 169-171 of handler A.
IsM3U8A(contentType, decodedUrl) ==
  \/ Includes(contentType, <<"m","p","e","g","u","r","l">>)
  \/ Includes(contentType, <<"x","-","m","p","e","g","u","r","l">>)
  \/ EndsWith(decodedUrl, <<".","m","3","u","8">>)

\* Lines 117-166 of handler A: the headers of a reply that is passed on.
SuccessHeadersA(h, reply, decodedUrl) ==
  CacheHeadersA(
    Forward(Forward(
      setHeader(
        Forward(Forward(
          setHeader(
            setHeader(setHeader(setHeader(setHeader(h,
              "Access-Control-Allow-Origin", "*"),
              "Access-Control-Allow-Methods", AllowMethods),
              "Access-Control-Allow-Headers", AllowHeadersA),
              "Access-Control-Expose-Headers", ExposeHeadersA),
            "Content-Type", OrElse(Hdr(reply, "content-type"), DefaultContentTypeA)),
          reply, "content-length", "Content-Length"),
          reply, "content-range", "Content-Range"),
        "Accept-Ranges", OrElse(Hdr(reply, "accept-ranges"), Bytes)),
      reply, "etag", "ETag"),
      reply, "last-modified", "Last-Modified"),
    decodedUrl)

AnyThrows(newLines) == \E i \in DOMAIN newLines : ~newLines[i].ok

\* Lines 202-205: the mapped lines joined and sent, or the exception of a
\* line caught by the catch block.
SendLinesA(r, status, newLines, decodedUrl) ==
  IF AnyThrows(newLines) THEN CatchA(r, InvalidUrlError, decodedUrl)
  ELSE SendText(r, status, Join([i \in DOMAIN newLines |-> newLines[i].out], "\n"))

\* Lines 174-205 on the lines of the body.
RewriteA(r, status, lines, decodedUrl, proxyBaseUrl, encodedReferer) ==
  SendLinesA(r, status,
             [i \in DOMAIN lines |->
                RewriteLineA(lines[i], BasePath(decodedUrl), proxyBaseUrl,
                             encodedReferer)],
             decodedUrl)

\* Lines 117-209 of handler A; r carries the headers of lines 118-166.
SuccessA(rq, e, r, ob, reply) ==
  IF IsM3U8A(OrElse(Hdr(reply, "content-type"), DefaultContentTypeA), ob.url)
  THEN RewriteA(r, reply.status, Split(reply.data, "\n"), ob.url,
                getProxyBaseUrl(e, rq.headers), encodeURIComponent(ob.referer))
  ELSE SendBuffer(r, reply.status, reply.data)

\* Lines 106-209 of handler A: axios resolved with reply (status < 500).
ResolvedA(rq, e, r0, ob, reply) ==
  IF reply.status >= 400
  THEN Json(AllowOrigin(r0), reply.status, "Upstream error",
            {"error", "status", "statusText", "url"}, reply.status, ob.url)
  ELSE SuccessA(rq, e,
                [r0 EXCEPT !.headers = SuccessHeadersA(@, reply, ob.url)], ob, reply)

\* axios rejected with err: the catch block of handler A.
RejectedA(r0, ob, err) == CatchA(r0, err, ob.url)

\* ------------------------------------------------- handler B (lines 266-405)

\* Lines 270-274: the CORS headers handler B sets before anything else.
CorsB(h) ==
  setHeader(setHeader(setHeader(setHeader(setHeader(h,
    "Access-Control-Allow-Origin", "*"),
    "Access-Control-Allow-Methods", AllowMethods),
    "Access-Control-Allow-Headers", AllowHeadersB),
    "Access-Control-Expose-Headers", ExposeHeadersB),
    "Access-Control-Max-Age", "86400")

\* The catch block of handler B (lines 393-404).
CatchB(r, err) ==
  IF err.hasResponse
  THEN Json(r, err.status, "Upstream error", {"error", "status"}, err.status, <<>>)
  ELSE Json(r, 500, "error.message", {"error"}, 0, <<>>)

UriError == [code |-> "URIError", hasResponse |-> FALSE, status |-> 0]

\* Lines 311-334 of handler B: decRef is decodeURIComponent(referer) and
\* refUrl new URL(decodedReferer), where referer is given.
FetchB(rq, r0, dec, decRef, refUrl) ==
  IF rq.referer # <<>> /\ ~decRef.ok THEN Answered(CatchB(r0, UriError))
  ELSE IF rq.referer # <<>> /\ ~refUrl.ok THEN Answered(CatchB(r0, InvalidUrlError))
  ELSE Awaiting(r0, [url |-> dec.value,
                     referer |-> IF rq.referer # <<>> THEN decRef.value
                                 ELSE DefaultReferer,
                     origin |-> IF rq.referer # <<>> THEN Origin(refUrl)
                                ELSE DefaultReferer,
                     range |-> rq.headers.range,
                     userAgent |-> BrowserUserAgent])

RefererB(rq, r0, dec, decRef) == FetchB(rq, r0, dec, decRef, ParseUrl(decRef.value))

\* Lines 292-334 of handler B: dec is the result of decodeURIComponent(url).
TryB(rq, r0, dec) ==
  IF ~dec.ok THEN Answered(CatchB(r0, UriError))
  ELSE RefererB(rq, r0, dec, decodeURIComponent(rq.referer))

\* Lines 270-334 of handler B, up to the await of axios; r0 carries the CORS
\* headers of lines 270-274.
StartWithB(rq, r0) ==
  IF rq.method = "OPTIONS" THEN Answered(End(r0, 200))
  ELSE IF rq.method # "GET"
  THEN Answered(Json(r0, 405, "Method not allowed", {"error"}, 0, <<>>))
  ELSE IF rq.url = <<>>
  THEN Answered(Json(r0, 400, "URL parameter is required", {"error"}, 0, <<>>))
  ELSE TryB(rq, r0, decodeURIComponent(rq.url))

StartB(rq) == StartWithB(rq, [FreshResponse EXCEPT !.headers = CorsB(@)])

\* Lines 353-358 of handler B.
CacheHeadersB(h, decodedUrl) ==
  IF EndsWith(decodedUrl, <<".","t","s">>) \/ EndsWith(decodedUrl, <<".","m","4","s">>)
  THEN setHeader(h, "Cache-Control", CacheImmutable)
  ELSE IF EndsWith(decodedUrl, <<".","m","3","u","8">>)
  THEN setHeader(h, "Cache-Control", CacheNoCache)
  ELSE h

\* Line 361 of handler B.
IsM3U8B(contentType, decodedUrl) ==
  Includes(contentType, <<"m","p","e","g","u","r","l">>) \/ EndsWith(decodedUrl, <<".","m","3","u","8">>)

\* Lines 372-383 on the trimmed line.
RewriteTrimmedB(line, basePath, proxyBase, referer) ==
  IF line = <<>> \/ StartsWith(line, <<"#">>) THEN line
  ELSE ProxyLink(proxyBase,
                 IF StartsWith(line, HttpPrefix) THEN line ELSE basePath \o line,
                 encodeURIComponent(OrElse(referer, DefaultReferer)))

\* The callback of lines.map in handler B (lines 371-384).
RewriteLineB(line, basePath, proxyBase, referer) ==
  RewriteTrimmedB(Trim(line), basePath, proxyBase, referer)

\* Lines 366-368 of handler B.
ProxyBaseB(hdrs) ==
  OrElse(hdrs.xfproto, DefaultProtocol) \o <<":", "/", "/">>
  \o OrElse(hdrs.xfhost, hdrs.host)

\* Lines 336-358 of handler B: the headers of the reply that is passed on.
SuccessHeadersB(h, reply, decodedUrl) ==
  CacheHeadersB(
    setHeader(
      Forward(Forward(
        setHeader(h, "Content-Type",
                  OrElse(Hdr(reply, "content-type"), DefaultContentTypeB)),
        reply, "content-length", "Content-Length"),
        reply, "content-range", "Content-Range"),
      "Accept-Ranges", OrElse(Hdr(reply, "accept-ranges"), Bytes)),
    decodedUrl)

\* Lines 362-387 on the lines of the body.
RewriteB(r, status, lines, basePath, proxyBase, referer) ==
  SendText(r, status,
           Join([i \in DOMAIN lines |->
                   RewriteLineB(lines[i], basePath, proxyBase, referer)], "\n"))

\* Lines 360-391 of handler B; r carries the headers of lines 336-358.
SuccessB(rq, r, ob, reply) ==
  IF IsM3U8B(OrElse(Hdr(reply, "content-type"), DefaultContentTypeB), ob.url)
  THEN RewriteB(r, reply.status, Split(reply.data, "\n"), BasePath(ob.url),
                ProxyBaseB(rq.headers), rq.referer)
  ELSE SendBuffer(r, reply.status, reply.data)

\* Lines 336-391 of handler B: axios resolved with reply (status < 500).
ResolvedB(rq, r0, ob, reply) ==
  SuccessB(rq, [r0 EXCEPT !.headers = SuccessHeadersB(@, reply, ob.url)], ob, reply)

\* axios rejected with err: the catch block of handler B.
RejectedB(r0, err) == CatchB(r0, err)

\* ------------------------------------------------- the two handlers

Start(h, rq) == IF h = "A" THEN StartA(rq) ELSE StartB(rq)

Resolved(h, rq, e, r0, ob, reply) ==
  IF h = "A" THEN ResolvedA(rq, e, r0, ob, reply) ELSE ResolvedB(rq, r0, ob, reply)

Rejected(h, r0, ob, err) ==
  IF h = "A" THEN RejectedA(r0, ob, err) ELSE RejectedB(r0, err)

\* ------------------------------------------------- state

VARIABLES
  env,        \* process.env.PROXY_BASE_URL, '' when unset; fixed after start
  pc,         \* "idle", "awaiting" (the handler awaits axios), "done"
  handler,    \* the handler serving the current request: "A" or "B"
  req,        \* the inbound request: method, query (decoded once by the
              \* framework) and the headers the handlers read
  outbound,   \* the axios request of the current request
  fetches,    \* the number of axios calls made for the current request
  upstream,   \* how the axios call ended: a reply, or a failure
  res,        \* the response object
  prev,       \* the previous exchange, where a specification keeps it
  hops        \* how many rewritten links led to the current request

vars == <<env, pc, handler, req, outbound, fetches, upstream, res, prev, hops>>

NoHeadersIn == [host |-> <<>>, xfhost |-> <<>>, xfproto |-> <<>>, range |-> <<>>,
                ua |-> <<>>]

NoRequest == [method |-> "", url |-> <<>>, referer |-> <<>>, headers |-> NoHeadersIn]

NoReply == [status |-> 0, statusText |-> "", headers |-> NoHeaders, data |-> <<>>]

NoError == [code |-> "", hasResponse |-> FALSE, status |-> 0]

NoUpstream == [kind |-> "none", reply |-> NoReply, err |-> NoError]

NoExchange ==
  [present |-> FALSE, handler |-> "", req |-> NoRequest, outbound |-> NoOutbound,
   upstream |-> NoUpstream, res |-> FreshResponse]

\* The exchange that has just ended.
Current ==
  [present |-> TRUE, handler |-> handler, req |-> req, outbound |-> outbound,
   upstream |-> upstream, res |-> res]

Handlers == {"A", "B"}

\* ------------------------------------------------- bounds and inputs

\* The longest upstream playlist, in lines.
MaxLines == 2

\* The longest chain of requests that follow rewritten links.
MaxHops == 1

ProxyHost == <<"p",".","i","o">>

ForwardedHost == <<"q",".","i","o">>

EnvBaseUrl == <<"h","t","t","p","s",":","/","/","e",".","i","o","/">>

Envs == {<<>>, EnvBaseUrl}

PlainHeaders == [NoHeadersIn EXCEPT !.host = ProxyHost]

ForwardedHeaders ==
  [host |-> ProxyHost, xfhost |-> ForwardedHost, xfproto |-> <<"h","t","t","p">>,
   range |-> <<"b","y","t","e","s","=","0","-","1">>, ua |-> <<"U","A">>]

\* Values of req.query.url
UrlUndecodable == <<"%">>

UrlMalformed == <<"c",".","i","o","/","p",".","m","3","u","8">>

UrlNoPath == <<"h","t","t","p","s",":","/","/","c",".","i","o">>

UrlPlaylist == <<"h","t","t","p","s",":","/","/","c",".","i","o","/","v","/","a","/","p",".","m","3","u","8">>

UrlPlaylistEncoded == <<"h","t","t","p","s","%","3","A","%","2","F","%","2","F","c",".","i","o","%","2","F","v","%","2","F","a","%","2","F","p",".","m","3","u","8">>

UrlPlaylistQuery == <<"h","t","t","p","s",":","/","/","c",".","i","o","/","v","/","a","/","p",".","m","3","u","8","?","t","=","1">>

UrlSegment == <<"h","t","t","p","s",":","/","/","c",".","i","o","/","v","/","a","/","s",".","t","s">>

UrlOther == <<"h","t","t","p","s",":","/","/","c",".","i","o","/","v","/","a","/","k",".","b","i","n">>

\* Values of req.query.referer
RefererPlain == <<"h","t","t","p","s",":","/","/","r",".","i","o">>

RefererEscaped == <<"h","t","t","p","s",":","/","/","r",".","i","o","/","%","2","5","4","1">>

RefererUndecodable == <<"%">>

RefererNoUrl == <<"r",".","i","o">>

Get(url, referer, hdrs) ==
  [method |-> "GET", url |-> url, referer |-> referer, headers |-> hdrs]

MainRequests ==
  { Get(u, r, h) :
      u \in {<<>>, UrlUndecodable, UrlMalformed, UrlNoPath, UrlPlaylistEncoded,
             UrlPlaylistQuery, UrlSegment, UrlOther},
      r \in {<<>>, RefererPlain, RefererUndecodable, RefererNoUrl},
      h \in {PlainHeaders, ForwardedHeaders} }
  \cup { [method |-> m, url |-> UrlPlaylist, referer |-> <<>>, headers |-> PlainHeaders] :
           m \in {"OPTIONS", "POST"} }

\* Playlist lines
LineTag == <<"#","E","X","T","M","3","U">>

LineRelative == <<"s",".","t","s">>

LineParent == <<".",".","/","s",".","t","s">>

LineRooted == <<"/","s",".","t","s">>

LineAbsolute == <<"h","t","t","p","s",":","/","/","d",".","i","o","/","s",".","t","s">>

LineHttpName == <<"h","t","t","p","x",".","t","s">>

LineUnresolvable == <<"/","/","[">>

LineKey == <<"#","K",":","U","R","I","=","\"","k",".","b","i","n","\"",",","M","=","1">>

LineKeyCr == <<" ","#","K",":","U","R","I","=","\"","k",".","b","i","n","\"","\r">>

LineKeyUnresolvable == <<"#","K",":","U","R","I","=","\"","/","/","[","\"">>

LineRelativeCr == <<"s",".","t","s","\r">>

SeqsUpTo(S, n) == UNION { [1..k -> S] : k \in 1..n }

\* The upstream bodies of up to MaxLines lines drawn from L.
Playlists(L) == { Join(ls, "\n") : ls \in SeqsUpTo(L, MaxLines) }

MainLines == {LineTag, LineRelative, LineUnresolvable}

ContentTypes == {<<>>, <<"a","p","p","l","i","c","a","t","i","o","n","/","x","-","m","p","e","g","u","r","l">>, <<"v","i","d","e","o","/","m","p","2","t">>}

OkReply(status, text, hs, data) ==
  [status |-> status, statusText |-> text, headers |-> hs, data |-> data]

WithType(hs, ct) == IF ct = <<>> THEN hs ELSE setHeader(hs, "content-type", ct)

\* The header sets of an upstream reply: none of the headers the handlers
\* forward, the ones of a full reply, the ones of a partial reply.
PlainReplyHeaders == NoHeaders

FullReplyHeaders ==
  setHeader(setHeader(setHeader(NoHeaders, "content-length", <<"9">>), "etag", <<"e","1">>),
            "last-modified", <<"n","o","w">>)

PartialReplyHeaders ==
  setHeader(setHeader(setHeader(NoHeaders, "content-length", <<"2">>),
                      "content-range", <<"b","y","t","e","s"," ","0","-","1","/","9">>), "accept-ranges", <<"b","y","t","e","s">>)

Replies(bodies) ==
  { OkReply(s[1], s[2], WithType(s[3], ct), d) :
      s \in { <<200, "OK", PlainReplyHeaders>>, <<200, "OK", FullReplyHeaders>>,
              <<206, "Partial Content", PartialReplyHeaders>>,
              <<403, "Forbidden", PlainReplyHeaders>> },
      ct \in ContentTypes, d \in bodies }

\* How an axios call fails: the timeout (ECONNABORTED), name resolution,
\* a refused or reset connection, and a reply with status >= 500, which
\* validateStatus (lines 99, 331) turns into a rejection with error.response.
Failures ==
  { [code |-> c, hasResponse |-> FALSE, status |-> 0] :
      c \in {"ECONNABORTED", "ENOTFOUND", "EAI_AGAIN", "ECONNREFUSED", "ECONNRESET"} }
  \cup { [code |-> "ERR_BAD_RESPONSE", hasResponse |-> TRUE, status |-> s] :
           s \in {500, 503} }

\* ------------------------------------------------- actions

Init ==
  /\ env \in Envs
  /\ pc = "idle"
  /\ handler = "A"
  /\ req = NoRequest
  /\ outbound = NoOutbound
  /\ fetches = 0
  /\ upstream = NoUpstream
  /\ res = FreshResponse
  /\ prev = NoExchange
  /\ hops = 0

\* The platform calls handler h with request rq: the handler runs to its
\* first response or to the await of axios, which leaves s.
Begin(h, rq, s, p, n) ==
  /\ handler' = h
  /\ req' = rq
  /\ res' = s.res
  /\ outbound' = s.outbound
  /\ fetches' = IF s.fetch THEN 1 ELSE 0
  /\ pc' = IF s.done THEN "done" ELSE "awaiting"
  /\ upstream' = NoUpstream
  /\ prev' = p
  /\ hops' = n
  /\ UNCHANGED env

Receive(h, rq) ==
  /\ pc = "idle"
  /\ Begin(h, rq, Start(h, rq), NoExchange, 0)

\* axios resolves (status < 500): the handler runs to its response.
FetchResolves(reply) ==
  /\ pc = "awaiting"
  /\ ParseUrl(outbound.url).ok       \* only a URL that names a server is answered
  /\ reply.status < 500
  /\ upstream' = [kind |-> "reply", reply |-> reply, err |-> NoError]
  /\ res' = Resolved(handler, req, env, res, outbound, reply)
  /\ pc' = "done"
  /\ UNCHANGED <<env, handler, req, outbound, fetches, prev, hops>>

\* axios rejects: the catch block answers.
FetchRejects(err) ==
  /\ pc = "awaiting"
  /\ upstream' = [kind |-> "failure", reply |-> NoReply, err |-> err]
  /\ res' = Rejected(handler, res, outbound, err)
  /\ pc' = "done"
  /\ UNCHANGED <<env, handler, req, outbound, fetches, prev, hops>>

Next ==
  \/ \E h \in Handlers, rq \in MainRequests : Receive(h, rq)
  \/ \E reply \in Replies(Playlists(MainLines)) : FetchResolves(reply)
  \/ \E err \in Failures : FetchRejects(err)

Spec == Init /\ [][Next]_vars


\* ------------------------------------------------- rewriting of playlists

\* The specification of the rewriting: requests for a playlist, answered
\* with playlists of every kind of line.
RewriteLines ==
  {<<>>, LineTag, LineRelative, LineParent, LineRooted, LineAbsolute, LineHttpName,
   LineUnresolvable, LineKey, LineKeyCr, LineKeyUnresolvable, LineRelativeCr}

RewriteRequests == { Get(u, <<>>, PlainHeaders) : u \in {UrlPlaylist, UrlNoPath} }

RewriteReplies ==
  { OkReply(200, "OK", WithType(PlainReplyHeaders, <<"a","p","p","l","i","c","a","t","i","o","n","/","x","-","m","p","e","g","u","r","l">>), d) :
      d \in Playlists(RewriteLines) }

NextRewrite ==
  \/ \E h \in Handlers, rq \in RewriteRequests : Receive(h, rq)
  \/ \E reply \in RewriteReplies : FetchResolves(reply)

SpecRewrite == Init /\ [][NextRewrite]_vars

\* ------------------------------------------------- pairs of requests

\* The specification of two requests in a row, the first one remembered in
\* prev: the same playlist asked for by requests with different headers.
RangeHeaders == [PlainHeaders EXCEPT !.range = <<"b","y","t","e","s","=","0","-","1">>, !.ua = <<"U","A">>]

OtherHostHeaders == [PlainHeaders EXCEPT !.host = ForwardedHost]

ForwardedHostHeaders == [PlainHeaders EXCEPT !.xfhost = ForwardedHost]

ForwardedProtoHeaders == [PlainHeaders EXCEPT !.xfproto = <<"h","t","t","p">>]

PairHeaders ==
  {PlainHeaders, RangeHeaders, OtherHostHeaders, ForwardedHostHeaders,
   ForwardedProtoHeaders}

PairRequests ==
  { Get(UrlPlaylist, r, h) : r \in {<<>>, RefererPlain}, h \in PairHeaders }

PairReplies ==
  { OkReply(200, "OK", WithType(PlainReplyHeaders, <<"a","p","p","l","i","c","a","t","i","o","n","/","x","-","m","p","e","g","u","r","l">>), d) :
      d \in Playlists({LineRelative, LineKey}) }

\* The same handler is called with a second request.
ReceiveAgain(rq) ==
  /\ pc = "done"
  /\ ~prev.present
  /\ Begin(handler, rq, Start(handler, rq), Current, 0)

NextPair ==
  \/ \E h \in Handlers, rq \in PairRequests : Receive(h, rq)
  \/ \E rq \in PairRequests : ReceiveAgain(rq)
  \/ \E reply \in PairReplies : FetchResolves(reply)

SpecPair == Init /\ [][NextPair]_vars

\* ------------------------------------------------- chains of requests

\* The platform's parsing of the query string (req.query, line 41 and 286):
\* '+' is a space, every well-formed escape is decoded once, a malformed one
\* is left as it is.
RECURSIVE QueryUnescape(_)
QueryUnescape(s) ==
  IF s = <<>> THEN <<>>
  ELSE IF Head(s) = "+" THEN <<" ">> \o QueryUnescape(Tail(s))
  ELSE IF Head(s) = "%" /\ Len(s) >= 3 /\ IsHex(s[2]) /\ IsHex(s[3])
  THEN <<CodeChar(16 * HexValue(s[2]) + HexValue(s[3]))>>
       \o QueryUnescape(SubSeq(s, 4, Len(s)))
  ELSE <<Head(s)>> \o QueryUnescape(Tail(s))

UrlParam == <<"?","u","r","l","=">>

\* A line of a response body that is a link to the proxy.
IsLink(line) ==
  StartsWith(line, HttpPrefix) /\ Includes(line, UrlParam) /\ Includes(line, RefererParam)

\* The raw values of the url and referer parameters of a link; u and r are
\* the positions of '?url=' and '&referer='.
LinkParamsAt(line, u, r) ==
  [url |-> SubSeq(line, u + Len(UrlParam), r - 1),
   referer |-> SubSeq(line, r + Len(RefererParam), Len(line))]

LinkParams(line) == LinkParamsAt(line, IndexOf(line, UrlParam), IndexOf(line, RefererParam))

\* The request a client sends when it follows a link: req.query of it, and
\* the headers of the request that fetched the playlist.
FollowRequest(params, hdrs) ==
  Get(QueryUnescape(params.url), QueryUnescape(params.referer), hdrs)

Follow(rq) == Begin(handler, rq, Start(handler, rq), Current, hops + 1)

\* The client follows the link on line i of the rewritten playlist it got.
FollowLink(i) ==
  /\ pc = "done"
  /\ hops < MaxHops
  /\ res.body.kind = "text"
  /\ i \in DOMAIN Split(res.body.data, "\n")
  /\ IsLink(Split(res.body.data, "\n")[i])
  /\ Follow(FollowRequest(LinkParams(Split(res.body.data, "\n")[i]), req.headers))

ChainRequests ==
  { Get(UrlPlaylist, r, PlainHeaders) : r \in {<<>>, RefererPlain, RefererEscaped} }

ChainReplies ==
  { OkReply(200, "OK", WithType(PlainReplyHeaders, ct), d) :
      ct \in {<<"a","p","p","l","i","c","a","t","i","o","n","/","x","-","m","p","e","g","u","r","l">>, <<"v","i","d","e","o","/","m","p","2","t">>},
      d \in Playlists({LineTag, LineRelative}) }

NextChain ==
  \/ \E h \in Handlers, rq \in ChainRequests : Receive(h, rq)
  \/ \E reply \in ChainReplies : FetchResolves(reply)
  \/ \E i \in 1..MaxLines : FollowLink(i)

SpecChain == Init /\ [][NextChain]_vars

\* ------------------------------------------------- properties

\* The handler has answered the request itself (an exception that leaves
\* the handler is answered by the platform).
Sent == pc = "done" /\ res.by = "handler"

HasHeader(name) == name \in DOMAIN res.headers

CorsHeaderSet ==
  {"Access-Control-Allow-Origin", "Access-Control-Allow-Methods",
   "Access-Control-Allow-Headers", "Access-Control-Expose-Headers"}

\* C4: every response the handler sends carries Access-Control-Allow-Origin
\* '*', Access-Control-Allow-Methods 'GET, OPTIONS' and the Allow-Headers
\* and Expose-Headers lists, on every path.
C4_CorsOnEveryResponse ==
  Sent =>
    /\ CorsHeaderSet \subseteq DOMAIN res.headers
    /\ res.headers["Access-Control-Allow-Origin"] = "*"
    /\ res.headers["Access-Control-Allow-Methods"] = AllowMethods

\* The upstream answered with a status the handler's validateStatus accepts.
Replied == pc = "done" /\ upstream.kind = "reply"

\* C5: an upstream reply with a status in 400..499 is answered with the same
\* status and a JSON error body that carries this status, the status text
\* and the target URL; the upstream body is neither passed through nor
\* rewritten.
C5_Upstream4xxIsJsonError ==
  (Replied /\ upstream.reply.status \in 400..499) =>
    /\ res.by = "handler"
    /\ res.status = upstream.reply.status
    /\ res.body.kind = "json"
    /\ {"error", "status", "statusText", "url"} \subseteq res.body.fields
    /\ res.body.status = upstream.reply.status
    /\ res.body.url = outbound.url

\* The fetch failed without any upstream response.
TransportFailure ==
  pc = "done" /\ upstream.kind = "failure" /\ ~upstream.err.hasResponse

\* C6: a fetch that times out is answered 504 'Gateway timeout'; a fetch
\* that fails on name resolution or on the connection, without an upstream
\* response, is answered 502; neither is answered 500.
C6_TransportFailureStatus ==
  TransportFailure =>
    /\ res.by = "handler"
    /\ upstream.err.code = "ECONNABORTED" =>
         res.status = 504 /\ res.body.error = "Gateway timeout"
    /\ upstream.err.code # "ECONNABORTED" => res.status = 502

\* The url parameter is present, percent-decodable and a well-formed
\* absolute URL.
UrlAccepted(rq) ==
  /\ rq.url # <<>>
  /\ decodeURIComponent(rq.url).ok
  /\ ParseUrl(decodeURIComponent(rq.url).value).ok

\* C7: validation comes before the fetch, and a request issues exactly one
\* outbound GET when it is a GET with a present, decodable, well-formed url,
\* and none otherwise; a failed fetch is not repeated.
C7_OneFetchIffValidGet ==
  /\ pc = "awaiting" => fetches = 1 /\ req.method = "GET" /\ UrlAccepted(req)
  /\ pc = "done" =>
       fetches = IF req.method = "GET" /\ UrlAccepted(req) THEN 1 ELSE 0
  /\ upstream.kind # "none" => fetches = 1

\* The path of a URL text: what comes before the query and the fragment.
PathOf(u) == SubSeq(u, 1, MinOr({i \in DOMAIN u : u[i] \in {"?", "#"}}, Len(u) + 1) - 1)

HasSuffix(u, suffixes) == \E s \in suffixes : EndsWith(PathOf(u), s)

SegmentSuffixes == {<<".","t","s">>, <<".","m","4","s">>, <<".","m","p","4">>}

PlaylistSuffixes == {<<".","m","3","u","8">>, <<".","m","p","d">>}

\* The playlist trigger: an MPEG-URL content type, or an upstream URL whose
\* path ends in .m3u8.
PlaylistTrigger ==
  \/ Includes(Hdr(upstream.reply, "content-type"), <<"m","p","e","g","u","r","l">>)
  \/ EndsWith(PathOf(outbound.url), <<".","m","3","u","8">>)

\* A successful answer: the upstream reply relayed, rewritten or not.
Success ==
  Replied /\ res.by = "handler" /\ upstream.reply.status < 400 /\ res.status < 400

NoCachePolicy ==
  /\ HasHeader("Cache-Control") /\ res.headers["Cache-Control"] = CacheNoStore
  /\ HasHeader("Pragma") /\ HasHeader("Expires")

CachePolicyIs(value) == HasHeader("Cache-Control") /\ res.headers["Cache-Control"] = value

\* C10: a successful response has the one cache policy of its kind:
\* immutable for a segment, no-cache, no-store, must-revalidate with Pragma
\* and Expires for a playlist, one hour for anything else; a body rewritten
\* as a playlist always has the no-cache policy.
C10_CachePolicyByKind ==
  Success =>
    IF res.body.kind = "text" \/ PlaylistTrigger
       \/ HasSuffix(outbound.url, PlaylistSuffixes)
    THEN NoCachePolicy
    ELSE IF HasSuffix(outbound.url, SegmentSuffixes)
    THEN CachePolicyIs(CacheImmutable)
    ELSE CachePolicyIs(CacheModerate)

\* ------------------------------------------------- properties of the rewriting

\* The upstream reply was relayed as a playlist.
Relayed == Success /\ PlaylistTrigger

InLines == Split(upstream.reply.data, "\n")

OutLines == Split(res.body.data, "\n")

\* The address of the proxy that the links of the answer start with.
ProxyBase ==
  IF handler = "A" THEN getProxyBaseUrl(env, req.headers) ELSE ProxyBaseB(req.headers)

\* The directory of the upstream manifest URL.
ManifestDir == BasePath(outbound.url)

IsBlank(line) == Trim(line) = <<>>

IsTag(line) == StartsWith(Trim(line), <<"#">>)

\* A media reference that is not an absolute URL.
IsRelativeReference(line) == ~IsBlank(line) /\ ~IsTag(line) /\ ~HasScheme(Trim(line))

Resolvable(ref) == ResolveUrl(ref, ManifestDir).ok

\* '<proxyBase>/api/proxy?url=<E>&referer=', where E encodes ref resolved
\* against the directory of the manifest.
LinkPrefix(ref) ==
  ProxyBase \o ApiProxyUrl \o encodeURIComponent(Href(ResolveUrl(ref, ManifestDir)))
  \o RefererParam

\* C1: in a playlist, every non-blank line that is neither a tag nor an
\* absolute URL is replaced by the proxy link to that reference resolved
\* against the directory of the upstream manifest URL.
C1_RelativeReferenceResolved ==
  Relayed =>
    /\ res.body.kind = "text"
    /\ Len(OutLines) = Len(InLines)
    /\ \A i \in DOMAIN InLines :
         (IsRelativeReference(InLines[i]) /\ Resolvable(Trim(InLines[i]))) =>
           /\ i \in DOMAIN OutLines
           /\ StartsWith(OutLines[i], LinkPrefix(Trim(InLines[i])))
           /\ ~Includes(SubSeq(OutLines[i], Len(LinkPrefix(Trim(InLines[i]))) + 1,
                               Len(OutLines[i])), <<"&">>)

\* The quoted value of the URI attribute of a tag line, '' when it has none.
UriFound(line) == UriMatch(line).at # 0

UriValue(line) ==
  IF UriFound(line)
  THEN SubSeq(line, UriMatch(line).at + Len(UriAttr), UriMatch(line).close - 1)
  ELSE <<>>

\* A line that names a reference which cannot be resolved.
Unresolvable(line) ==
  \/ IsRelativeReference(line) /\ ~Resolvable(Trim(line))
  \/ /\ IsTag(line) /\ UriFound(line)
     /\ ~HasScheme(UriValue(line)) /\ ~Resolvable(UriValue(line))

\* C2: a line whose reference cannot be resolved never aborts the answer:
\* the upstream status and a playlist body are answered, in which that line
\* is the original line.
C2_UnresolvableLineKept ==
  (Replied /\ upstream.reply.status < 400 /\ PlaylistTrigger) =>
    /\ res.by = "handler"
    /\ res.status = upstream.reply.status
    /\ res.body.kind = "text"
    /\ Len(OutLines) = Len(InLines)
    /\ \A i \in DOMAIN InLines :
         Unresolvable(InLines[i]) => i \in DOMAIN OutLines /\ OutLines[i] = InLines[i]

\* The referer of the links: the one sent upstream, encoded.
LinkReferer == encodeURIComponent(outbound.referer)

\* The target of a URI attribute: the value when absolute, else the value
\* resolved against the directory of the manifest.
UriTarget(v) == IF HasScheme(v) THEN v ELSE Href(ResolveUrl(v, ManifestDir))

\* The tag line with only the quoted value of its URI attribute replaced.
ExpectedTag(line) ==
  IF ~UriFound(line) \/ (~HasScheme(UriValue(line)) /\ ~Resolvable(UriValue(line)))
  THEN line
  ELSE SubSeq(line, 1, UriMatch(line).at - 1) \o UriAttr
       \o ProxyLink(ProxyBase, UriTarget(UriValue(line)), LinkReferer)
       \o SubSeq(line, UriMatch(line).close, Len(line))

\* C8: a tag line with a URI attribute is output with only the quoted value
\* replaced by the proxy link, every other character kept; blank lines and
\* tags without the attribute are output unchanged; the lines keep their
\* number and order.
C8_OnlyUriValueReplaced ==
  (Relayed /\ res.body.kind = "text") =>
    /\ Len(OutLines) = Len(InLines)
    /\ \A i \in DOMAIN InLines :
         (IsBlank(InLines[i]) \/ IsTag(InLines[i])) =>
           i \in DOMAIN OutLines /\ OutLines[i] = ExpectedTag(InLines[i])

\* ------------------------------------------------- properties of pairs and chains

\* Two requests in a row with the same url and referer parameters were
\* answered with rewritten playlists made from the same upstream reply.
SamePair ==
  /\ pc = "done" /\ prev.present /\ handler = prev.handler
  /\ req.url = prev.req.url /\ req.referer = prev.req.referer
  /\ upstream.kind = "reply" /\ upstream = prev.upstream
  /\ res.body.kind = "text" /\ prev.res.body.kind = "text"

\* The two requests reach the proxy under the same address: the configured
\* one, or the same forwarded protocol and the same forwarded host (the Host
\* header where none is forwarded).
SameProxyBase ==
  \/ handler = "A" /\ env # <<>>
  \/ /\ OrElse(req.headers.xfproto, DefaultProtocol)
          = OrElse(prev.req.headers.xfproto, DefaultProtocol)
     /\ OrElse(req.headers.xfhost, req.headers.host)
          = OrElse(prev.req.headers.xfhost, prev.req.headers.host)

\* C9 as stated: two requests with the same url, the same referer and the
\* same upstream bytes get the same rewritten body, whatever their other
\* headers are.
C9_StableWhateverHeaders == SamePair => res.body.data = prev.res.body.data

\* C9, amended: two such requests get the same rewritten body when they
\* reach the proxy under the same address, whatever User-Agent and Range
\* they carry.
C9_StableUnderSameProxyBase ==
  (SamePair /\ SameProxyBase) => res.body.data = prev.res.body.data

C9_Witness ==
  /\ SamePair /\ SameProxyBase
  /\ req.headers.host # prev.req.headers.host
  /\ Includes(res.body.data, ApiProxyUrl)
  /\ res.body.data = prev.res.body.data

\* The referer a link carries, as the handler reads it from the query of the
\* request that follows the link.
CarriedReferer(line) == decodeURIComponent(QueryUnescape(LinkParams(line).referer))

\* C3: the referer parameter of every link of a rewritten playlist is the
\* Referer that the request sent upstream, and the request that follows a
\* link sends the same Referer upstream as the request that made the link.
C3_RefererKeptAlongChain ==
  /\ (Success /\ res.body.kind = "text") =>
       \A i \in DOMAIN OutLines :
         IsLink(OutLines[i]) =>
           /\ CarriedReferer(OutLines[i]).ok
           /\ CarriedReferer(OutLines[i]).value = outbound.referer
  /\ (hops > 0 /\ pc \in {"awaiting", "done"}) =>
       fetches = 1 /\ outbound.referer = prev.outbound.referer

\* ------------------------------------------------- entity headers

\* The decimal text of a length.
RECURSIVE ToDecimal(_)
ToDecimal(n) ==
  IF n < 10 THEN <<Digits[n + 1]>>
  ELSE ToDecimal(n \div 10) \o <<Digits[(n % 10) + 1]>>

\* The entity headers of an upstream reply that describe its body d: a whole
\* entity with its tag, and a range that is the whole of it.
EntityHeaders(d) ==
  setHeader(setHeader(NoHeaders, "content-length", ToDecimal(Len(d))), "etag", <<"e","1">>)

RangeEntityHeaders(d) ==
  setHeader(setHeader(NoHeaders, "content-length", ToDecimal(Len(d))),
            "content-range",
            <<"b","y","t","e","s"," ","0","-">> \o ToDecimal(Len(d) - 1) \o <<"/">> \o ToDecimal(Len(d)))

EntityRequests ==
  { Get(u, <<>>, PlainHeaders) : u \in {UrlPlaylist, UrlSegment, UrlNoPath} }

EntityReplies ==
  { OkReply(200, "OK", WithType(EntityHeaders(d), ct), d) :
      ct \in {<<"a","p","p","l","i","c","a","t","i","o","n","/","x","-","m","p","e","g","u","r","l">>, <<"v","i","d","e","o","/","m","p","2","t">>}, d \in Playlists(MainLines) }
  \cup
  { OkReply(206, "Partial Content", WithType(RangeEntityHeaders(d), ct), d) :
      ct \in {<<"a","p","p","l","i","c","a","t","i","o","n","/","x","-","m","p","e","g","u","r","l">>, <<"v","i","d","e","o","/","m","p","2","t">>}, d \in Playlists(MainLines) }

NextEntity ==
  \/ \E h \in Handlers, rq \in EntityRequests : Receive(h, rq)
  \/ \E reply \in EntityReplies : FetchResolves(reply)

SpecEntity == Init /\ [][NextEntity]_vars

\* The body sent is text or bytes of the length of the upstream body.
SameLengthAsUpstream ==
  res.body.kind \in {"text", "bytes"} /\ Len(res.body.data) = Len(upstream.reply.data)

\* The body sent is the upstream body, byte for byte.
SameAsUpstream ==
  res.body.kind \in {"text", "bytes"} /\ res.body.data = upstream.reply.data

\* A JSON error body that names the target URL is longer than the URL, hence
\* longer than an upstream body that is no longer than the URL.
JsonLongerThanUpstream ==
  /\ res.body.kind = "json" /\ "url" \in res.body.fields
  /\ Len(upstream.reply.data) <= Len(res.body.url)

\* C11: a Content-Length, Content-Range or ETag that the handler has set
\* describes the body that is sent: a rewritten playlist, or a JSON error
\* body sent after the success headers were set, does not carry the
\* upstream's headers for a body of another length.
C11_EntityHeadersDescribeBody ==
  (Sent /\ Replied) =>
    /\ (HasHeader("Content-Length") /\ res.body.kind \in {"text", "bytes"}) =>
         res.headers["Content-Length"] = ToDecimal(Len(res.body.data))
    /\ (HasHeader("Content-Range") /\ res.body.kind \in {"text", "bytes"}) =>
         SameLengthAsUpstream
    /\ (HasHeader("ETag") /\ res.body.kind \in {"text", "bytes"}) => SameAsUpstream
    /\ JsonLongerThanUpstream =>
         /\ ~HasHeader("Content-Length") /\ ~HasHeader("Content-Range")
         /\ ~HasHeader("ETag")

====
